---- MODULE Spec2Model ----
(***************************************************************************)
(* A model of the blogicum views (blog/views.py): the relational store of  *)
(* posts and comments, the clock read by timezone.now(), and one action    *)
(* per view.  Every action records the request it served and the response  *)
(* it produced, so that properties of responses are properties of states.  *)
(*                                                                         *)
(* Not modelled: edit_profile and the auth views (they touch neither posts *)
(* nor comments), templates, and the Location attribute (display only).    *)
(***************************************************************************)
EXTENDS Integers, Sequences, FiniteSets, TLC

VARIABLES posts, comments, next_post_id, next_comment_id, now, request, response

vars == <<posts, comments, next_post_id, next_comment_id, now, request, response>>
store == <<posts, comments, next_post_id, next_comment_id>>

(* ------------------------------ bounds --------------------------------- *)
\* rows the Post table ever receives (ids are never reused)
MaxPosts == 2
\* rows the Comment table ever receives
MaxComments == 2
\* the clock runs over 0..MaxTime, and so do publication dates
MaxTime == 1
\* rows of the Post table in the pagination specification
MaxItems == 25

(* --------------------------- the fixed rows ---------------------------- *)
\* request.user: 0 is AnonymousUser, the others are rows of User
Anonymous == 0
Users == {1, 2}
Viewers == {Anonymous} \cup Users
User == [u \in Users |-> [username |-> IF u = 1 THEN "alice" ELSE "bob"]]
Usernames == {"alice", "bob", "nobody"}

\* Post.category is optional: 0 stands for None
NoCategory == 0
Category == [c \in {1, 2} |->
               IF c = 1 THEN [slug |-> "news", is_published |-> TRUE]
                        ELSE [slug |-> "hidden", is_published |-> FALSE]]
Slugs == {"news", "hidden", "missing"}

(* -------------------------- request payloads --------------------------- *)
\* What the request records of request.POST:
\*   "none"     a GET, no POST data
\*   "empty"    a POST with no field at all: request.POST is falsy, so
\*              `request.POST or None` is None and the form is unbound
\*   "invalid"  a POST whose fields fail the form's validation
\*   "valid"    a POST whose fields pass it; the cleaned data is drawn where
\*              the view saves it
NoData == "none"
EmptyData == "empty"
InvalidData == "invalid"
ValidData == "valid"
\* the cleaned data of a valid PostForm (author is not a field of the form)
PostFormData == [is_published : BOOLEAN, pub_date : 0..MaxTime,
                 category : {NoCategory} \cup DOMAIN Category]
\* the cleaned text of a valid CommentForm
CommentFormData == {"a", "b"}

\* Form(data).is_valid(): a form built from None is unbound, never valid
form_is_valid(data) == data = ValidData

(* ---------------------------- page parameter --------------------------- *)
\* request.GET.get('page'): None when absent, else a string (of characters)
PageNone == <<"None">>
Digits == {"0", "1", "3", "4"}
Chars == Digits \cup {"-", "x"}
PageParams == {PageNone} \cup {<<>>} \cup {<<a>> : a \in Chars}
                \cup {<<a, b>> : a \in Chars, b \in Chars}
DigitVal == ("0" :> 0) @@ ("1" :> 1) @@ ("3" :> 3) @@ ("4" :> 4)

RECURSIVE digits_value(_, _)
digits_value(s, acc) ==
    IF s = <<>> THEN acc ELSE digits_value(Tail(s), 10 * acc + DigitVal[Head(s)])

\* int(number): [ok, val]; TypeError for None, ValueError for a non-numeral
int_parse(s) ==
    IF s = PageNone THEN [ok |-> FALSE, val |-> 0]
    ELSE LET neg  == Len(s) >= 1 /\ Head(s) = "-"
             body == IF neg THEN Tail(s) ELSE s
         IN IF body = <<>> \/ \E i \in 1..Len(body) : body[i] \notin Digits
            THEN [ok |-> FALSE, val |-> 0]
            ELSE [ok |-> TRUE,
                  val |-> IF neg THEN 0 - digits_value(body, 0)
                                 ELSE digits_value(body, 0)]

(* ------------------------------ Paginator ------------------------------ *)
\* Paginator.num_pages, allow_empty_first_page = True, orphans = 0
num_pages(items, num) ==
    IF Len(items) = 0 THEN 1 ELSE (Len(items) + num - 1) \div num

\* Paginator.page(number): the slice [bottom, top) of the items
page(items, num, number) ==
    LET bottom == (number - 1) * num
        top    == IF bottom + num >= Len(items) THEN Len(items) ELSE bottom + num
    IN [number |-> number,
        num_pages |-> num_pages(items, num),
        object_list |-> SubSeq(items, bottom + 1, top)]

\* the page number get_page falls back to once validate_number has raised
\* EmptyPage (the number is below 1 or above num_pages)
\* (faulty variant: EmptyPage answered with the first page)
empty_page_fallback_first(items, num, number) == 1
empty_page_fallback(items, num, number) == num_pages(items, num)

\* Paginator.get_page(number): PageNotAnInteger -> 1, EmptyPage -> fallback
get_page(items, num, param) ==
    LET n == int_parse(param)
    IN IF ~n.ok THEN page(items, num, 1)
       ELSE IF n.val < 1 \/ n.val > num_pages(items, num)
            THEN page(items, num, empty_page_fallback(items, num, n.val))
            ELSE page(items, num, n.val)

PageSize == 10
get_paginator(req, items) == get_page(items, PageSize, req.page)

(* ------------------------- requests and responses ---------------------- *)
Req(view, user, method, post_id, comment_id, name, pg, data) ==
    [view |-> view, user |-> user, method |-> method, post_id |-> post_id,
     comment_id |-> comment_id, name |-> name, page |-> pg, data |-> data]
NoRequest == Req("none", Anonymous, "GET", 0, 0, "", PageNone, NoData)

NoTarget == [view |-> "", post_id |-> 0, name |-> ""]
NoPageObj == [number |-> 0, num_pages |-> 0, object_list |-> <<>>]
NoResponse == [status |-> "none", template |-> "", to |-> NoTarget, post |-> 0,
               page_obj |-> NoPageObj, comments |-> <<>>]
\* render(request, template, context)
Render(template, post, page_obj, cmts) ==
    [NoResponse EXCEPT !.status = "render", !.template = template, !.post = post,
                       !.page_obj = page_obj, !.comments = cmts]
\* redirect('blog:<view>', arg)
Redirect(view, post_id, name) ==
    [NoResponse EXCEPT !.status = "redirect",
                       !.to = [view |-> view, post_id |-> post_id, name |-> name]]
\* Http404 raised by get_object_or_404, rendered by handler404
NotFound == [NoResponse EXCEPT !.status = "notfound"]
\* an uncaught exception, rendered by handler500
ServerError == [NoResponse EXCEPT !.status = "error"]
\* @login_required for AnonymousUser: redirect to settings.LOGIN_URL
LoginRedirect == [NoResponse EXCEPT !.status = "login"]

(* ------------------------------ querysets ------------------------------ *)
\* category__is_published=True: an inner join, so a post without a category
\* never matches
category__is_published(p) ==
    /\ posts[p].category # NoCategory
    /\ Category[posts[p].category].is_published

\* Count('comments')
comment_count(p) == Cardinality({c \in DOMAIN comments : comments[c].post = p})

\* order_by('-pub_date'); rows with equal dates come in primary-key order
RECURSIVE order_by_pub_date_desc(_)
order_by_pub_date_desc(ids) ==
    IF ids = {} THEN <<>>
    ELSE LET first == CHOOSE p \in ids : \A q \in ids :
                          \/ posts[p].pub_date > posts[q].pub_date
                          \/ posts[p].pub_date = posts[q].pub_date /\ p <= q
         IN <<first>> \o order_by_pub_date_desc(ids \ {first})

\* the filter of get_annotated_posts when show_all is false
\* (faulty variant: the category's flag left out of the filter)
published_filter_no_category(p) ==
    /\ posts[p].pub_date <= now
    /\ posts[p].is_published
published_filter(p) ==
    /\ posts[p].pub_date <= now
    /\ posts[p].is_published
    /\ category__is_published(p)

get_annotated_posts(post_objects, show_all) ==
    LET shown  == IF ~show_all THEN {p \in post_objects : published_filter(p)}
                               ELSE post_objects
        sorted == order_by_pub_date_desc(shown)
    IN [i \in 1..Len(sorted) |->
          [id |-> sorted[i], comment_count |-> comment_count(sorted[i])]]

\* post.comments.order_by('created_at'): created_at is set once, when the row
\* is inserted, so it orders the comments as their ids do
RECURSIVE order_by_created_at(_)
order_by_created_at(ids) ==
    IF ids = {} THEN <<>>
    ELSE LET first == CHOOSE c \in ids : \A d \in ids : c <= d
         IN <<first>> \o order_by_created_at(ids \ {first})

post_comments(p) == order_by_created_at({c \in DOMAIN comments : comments[c].post = p})

\* Model.delete() of a post: the row goes, and its comments with it
without_post(p) == [q \in DOMAIN posts \ {p} |-> posts[q]]
without_comments_of(p) ==
    [c \in {d \in DOMAIN comments : comments[d].post # p} |-> comments[c]]
without_comment(c) == [d \in DOMAIN comments \ {c} |-> comments[d]]

(* -------------------------------- views -------------------------------- *)
Respond(req, resp) == request' = req /\ response' = resp

index(req) ==
    /\ Respond(req, Render("blog/index.html", 0,
                  get_paginator(req, get_annotated_posts(DOMAIN posts, FALSE)), <<>>))
    /\ UNCHANGED <<store, now>>

\* the queryset filter of the two filtered get_object_or_404 calls
detail_filter(p) ==
    /\ posts[p].is_published
    /\ posts[p].pub_date <= now
    /\ category__is_published(p)

\* how post_detail ends: "render", "notfound", or "error" when the condition
\* of the non-author branch reads .is_published of a category that is None
post_detail_outcome(user, p) ==
    IF user # Anonymous
    THEN IF p \notin DOMAIN posts THEN "notfound"
         ELSE IF posts[p].author # user
              THEN IF posts[p].is_published /\ posts[p].pub_date <= now
                   THEN IF posts[p].category = NoCategory THEN "error"
                        ELSE IF Category[posts[p].category].is_published
                             THEN "render"
                             ELSE IF detail_filter(p) THEN "render" ELSE "notfound"
                   ELSE IF detail_filter(p) THEN "render" ELSE "notfound"
              ELSE "render"
    ELSE IF p \in DOMAIN posts /\ detail_filter(p) THEN "render" ELSE "notfound"

post_detail(req) ==
    /\ LET outcome == post_detail_outcome(req.user, req.post_id)
       IN Respond(req, CASE outcome = "render" ->
                                Render("blog/detail.html", req.post_id, NoPageObj,
                                       post_comments(req.post_id))
                         [] outcome = "notfound" -> NotFound
                         [] OTHER -> ServerError)
    /\ UNCHANGED <<store, now>>

\* get_object_or_404(Category, slug=category_slug, is_published=True)
\* (faulty variant: the lookup without is_published=True)
category_lookup_any(slug) == {c \in DOMAIN Category : Category[c].slug = slug}
category_lookup(slug) ==
    {c \in DOMAIN Category : Category[c].slug = slug /\ Category[c].is_published}

category_posts(req) ==
    /\ LET found == category_lookup(req.name)
       IN IF found = {} THEN Respond(req, NotFound)
          ELSE LET category == CHOOSE c \in found : TRUE
                   post_list == get_annotated_posts(
                       {p \in DOMAIN posts : posts[p].category = category}, FALSE)
               IN Respond(req, Render("blog/category.html", 0,
                                      get_paginator(req, post_list), <<>>))
    /\ UNCHANGED <<store, now>>

\* get_object_or_404(User, username=username)
user_lookup(username) == {u \in Users : User[u].username = username}

\* show_all = request.user.is_authenticated and request.user == user
\* (faulty variant: every authenticated viewer is shown everything)
profile_show_all_logged_in(viewer, user) == viewer # Anonymous
profile_show_all(viewer, user) == viewer # Anonymous /\ viewer = user

profile(req) ==
    /\ LET found == user_lookup(req.name)
       IN IF found = {} THEN Respond(req, NotFound)
          ELSE LET user == CHOOSE u \in found : TRUE
                   posts_list == get_annotated_posts(
                       {p \in DOMAIN posts : posts[p].author = user},
                       profile_show_all(req.user, user))
               IN Respond(req, Render("blog/profile.html", 0,
                                      get_paginator(req, posts_list), <<>>))
    /\ UNCHANGED <<store, now>>

\* form.save(commit=False); post.author = request.user
\* (faulty variant: the author is not taken from the request)
new_post_first_user(user, data) ==
    [author |-> 1, is_published |-> data.is_published,
     pub_date |-> data.pub_date, category |-> data.category]
new_post(user, data) ==
    [author |-> user, is_published |-> data.is_published,
     pub_date |-> data.pub_date, category |-> data.category]

create_post(req) ==
    IF req.user = Anonymous
    THEN Respond(req, LoginRedirect) /\ UNCHANGED <<store, now>>
    ELSE IF req.method = "POST" /\ req.data # EmptyData /\ form_is_valid(req.data)
    THEN /\ next_post_id <= MaxPosts
         /\ \E cleaned \in PostFormData :
               posts' = posts @@ (next_post_id :> new_post(req.user, cleaned))
         /\ next_post_id' = next_post_id + 1
         /\ Respond(req, Redirect("profile", 0, User[req.user].username))
         /\ UNCHANGED <<comments, next_comment_id, now>>
    ELSE Respond(req, Render("blog/create.html", 0, NoPageObj, <<>>))
         /\ UNCHANGED <<store, now>>

\* if request.user != post.author (delete_post)
delete_post_denied(user, p) == user # posts[p].author

delete_post(req) ==
    IF req.user = Anonymous
    THEN Respond(req, LoginRedirect) /\ UNCHANGED <<store, now>>
    ELSE IF req.post_id \notin DOMAIN posts
    THEN Respond(req, NotFound) /\ UNCHANGED <<store, now>>
    ELSE IF delete_post_denied(req.user, req.post_id)
    THEN Respond(req, Redirect("post_detail", req.post_id, ""))
         /\ UNCHANGED <<store, now>>
    ELSE IF req.method = "POST"
    THEN /\ posts' = without_post(req.post_id)
         /\ comments' = without_comments_of(req.post_id)
         /\ Respond(req, Redirect("index", 0, ""))
         /\ UNCHANGED <<next_post_id, next_comment_id, now>>
    ELSE Respond(req, Render("blog/create.html", 0, NoPageObj, <<>>))
         /\ UNCHANGED <<store, now>>

\* if request.user != post.author (edit_post)
\* (faulty variant: the comparison left out)
edit_post_denied_never(user, p) == FALSE
edit_post_denied(user, p) == user # posts[p].author

edit_post(req) ==
    IF req.user = Anonymous
    THEN Respond(req, LoginRedirect) /\ UNCHANGED <<store, now>>
    ELSE IF req.post_id \notin DOMAIN posts
    THEN Respond(req, NotFound) /\ UNCHANGED <<store, now>>
    ELSE IF edit_post_denied(req.user, req.post_id)
    THEN Respond(req, Redirect("post_detail", req.post_id, ""))
         /\ UNCHANGED <<store, now>>
    ELSE IF req.method = "POST" /\ form_is_valid(req.data)
    THEN /\ \E cleaned \in PostFormData :
               posts' = [posts EXCEPT ![req.post_id].is_published = cleaned.is_published,
                                      ![req.post_id].pub_date = cleaned.pub_date,
                                      ![req.post_id].category = cleaned.category]
         /\ Respond(req, Redirect("post_detail", req.post_id, ""))
         /\ UNCHANGED <<comments, next_post_id, next_comment_id, now>>
    ELSE Respond(req, Render("blog/create.html", 0, NoPageObj, <<>>))
         /\ UNCHANGED <<store, now>>

\* CommentForm(request.POST or None).is_valid() in add_comment
\* (faulty variant: the comment is saved whatever is_valid says)
add_comment_valid_always(req) == TRUE
add_comment_valid(req) == req.data # EmptyData /\ form_is_valid(req.data)

add_comment(req) ==
    IF req.user = Anonymous
    THEN Respond(req, LoginRedirect) /\ UNCHANGED <<store, now>>
    ELSE IF req.post_id \notin DOMAIN posts
    THEN Respond(req, NotFound) /\ UNCHANGED <<store, now>>
    ELSE IF add_comment_valid(req)
    THEN /\ next_comment_id <= MaxComments
         /\ \E text \in CommentFormData :
               comments' = comments @@ (next_comment_id :>
                   [post |-> req.post_id, author |-> req.user, text |-> text])
         /\ next_comment_id' = next_comment_id + 1
         /\ Respond(req, Redirect("post_detail", req.post_id, ""))
         /\ UNCHANGED <<posts, next_post_id, now>>
    ELSE Respond(req, Redirect("post_detail", req.post_id, ""))
         /\ UNCHANGED <<store, now>>

\* get_object_or_404(Comment, id=comment_id): the post_id of the URL is not
\* part of the lookup
comment_lookup(post_id, comment_id) == {c \in DOMAIN comments : c = comment_id}

\* if request.user != comment.author
\* (faulty variant: the comparison left out)
comment_denied_never(user, c) == FALSE
comment_denied(user, c) == user # comments[c].author

edit_comment(req) ==
    IF req.user = Anonymous
    THEN Respond(req, LoginRedirect) /\ UNCHANGED <<store, now>>
    ELSE IF comment_lookup(req.post_id, req.comment_id) = {}
    THEN Respond(req, NotFound) /\ UNCHANGED <<store, now>>
    ELSE IF comment_denied(req.user, req.comment_id)
    THEN Respond(req, Redirect("post_detail", req.post_id, ""))
         /\ UNCHANGED <<store, now>>
    ELSE IF req.method = "POST" /\ req.data # EmptyData /\ form_is_valid(req.data)
    THEN /\ \E text \in CommentFormData :
               comments' = [comments EXCEPT ![req.comment_id].text = text]
         /\ Respond(req, Redirect("post_detail", req.post_id, ""))
         /\ UNCHANGED <<posts, next_post_id, next_comment_id, now>>
    ELSE Respond(req, Render("blog/comment.html", 0, NoPageObj, <<>>))
         /\ UNCHANGED <<store, now>>

delete_comment(req) ==
    IF req.user = Anonymous
    THEN Respond(req, LoginRedirect) /\ UNCHANGED <<store, now>>
    ELSE IF comment_lookup(req.post_id, req.comment_id) = {}
    THEN Respond(req, NotFound) /\ UNCHANGED <<store, now>>
    ELSE IF comment_denied(req.user, req.comment_id)
    THEN Respond(req, Redirect("post_detail", req.post_id, ""))
         /\ UNCHANGED <<store, now>>
    ELSE IF req.method = "POST"
    THEN /\ comments' = without_comment(req.comment_id)
         /\ Respond(req, Redirect("post_detail", req.post_id, ""))
         /\ UNCHANGED <<posts, next_post_id, next_comment_id, now>>
    ELSE Respond(req, Render("blog/comment.html", 0, NoPageObj, <<>>))
         /\ UNCHANGED <<store, now>>

(* ------------------------------ the requests --------------------------- *)
Methods == {"GET", "POST"}
PostIds == 1..MaxPosts
CommentIds == 1..MaxComments
\* the page parameters sent to the listings of the full specification
ListingPages == {PageNone, <<"0">>}

\* method and request.POST of a form view: nothing is posted on GET
Submissions ==
    {<<"GET", NoData>>} \cup
    {<<"POST", d>> : d \in {EmptyData, InvalidData, ValidData}}

IndexRequests(pages) ==
    {Req("index", v, "GET", 0, 0, "", pg, NoData) : v \in Viewers, pg \in pages}
PostDetailRequests ==
    {Req("post_detail", v, "GET", p, 0, "", PageNone, NoData) :
        v \in Viewers, p \in PostIds}
CategoryPostsRequests ==
    {Req("category_posts", v, "GET", 0, 0, slug, pg, NoData) :
        v \in Viewers, slug \in Slugs, pg \in ListingPages}
ProfileRequests ==
    {Req("profile", v, "GET", 0, 0, name, pg, NoData) :
        v \in Viewers, name \in Usernames, pg \in ListingPages}
CreatePostRequests ==
    {Req("create_post", v, s[1], 0, 0, "", PageNone, s[2]) :
        v \in Viewers, s \in Submissions}
DeletePostRequests ==
    {Req("delete_post", v, m, p, 0, "", PageNone, NoData) :
        v \in Viewers, m \in Methods, p \in PostIds}
EditPostRequests ==
    {Req("edit_post", v, s[1], p, 0, "", PageNone, s[2]) :
        v \in Viewers, s \in Submissions, p \in PostIds}
AddCommentRequests ==
    {Req("add_comment", v, s[1], p, 0, "", PageNone, s[2]) :
        v \in Viewers, s \in Submissions, p \in PostIds}
EditCommentRequests ==
    {Req("edit_comment", v, s[1], p, c, "", PageNone, s[2]) :
        v \in Viewers, s \in Submissions, p \in PostIds,
        c \in CommentIds}
DeleteCommentRequests ==
    {Req("delete_comment", v, m, p, c, "", PageNone, NoData) :
        v \in Viewers, m \in Methods, p \in PostIds, c \in CommentIds}

(* ------------------------------ the actions ---------------------------- *)
Index == \E req \in IndexRequests(ListingPages) : index(req)
PostDetail == \E req \in PostDetailRequests : post_detail(req)
CategoryPosts == \E req \in CategoryPostsRequests : category_posts(req)
Profile == \E req \in ProfileRequests : profile(req)
CreatePost == \E req \in CreatePostRequests : create_post(req)
DeletePost == \E req \in DeletePostRequests : delete_post(req)
EditPost == \E req \in EditPostRequests : edit_post(req)
AddComment == \E req \in AddCommentRequests : add_comment(req)
EditComment == \E req \in EditCommentRequests : edit_comment(req)
DeleteComment == \E req \in DeleteCommentRequests : delete_comment(req)

\* time passes between two requests; the response on screen is then stale
Tick ==
    /\ now < MaxTime
    /\ now' = now + 1
    /\ request' = NoRequest
    /\ response' = NoResponse
    /\ UNCHANGED store

Init ==
    /\ posts = <<>>
    /\ comments = <<>>
    /\ next_post_id = 1
    /\ next_comment_id = 1
    /\ now = 0
    /\ request = NoRequest
    /\ response = NoResponse

Next ==
    \/ Index
    \/ PostDetail
    \/ CategoryPosts
    \/ Profile
    \/ CreatePost
    \/ DeletePost
    \/ EditPost
    \/ AddComment
    \/ EditComment
    \/ DeleteComment
    \/ Tick

Spec == Init /\ [][Next]_vars

(* --------------------- the post views on their own --------------------- *)
\* The views that read or write posts, from the empty store (no view among
\* them writes a comment, so the Comment table stays empty).
NextPosts ==
    \/ Index
    \/ PostDetail
    \/ CategoryPosts
    \/ Profile
    \/ CreatePost
    \/ DeletePost
    \/ EditPost
    \/ Tick

SpecPosts == Init /\ [][NextPosts]_vars

(* -------------------- the comment views on their own ------------------- *)
\* Two posts are there already, as two valid create_post requests leave them:
\* alice's is publicly visible, bob's is not published.
InitComments ==
    /\ posts = (1 :> [author |-> 1, is_published |-> TRUE, pub_date |-> 0,
                      category |-> 1])
            @@ (2 :> [author |-> 2, is_published |-> FALSE, pub_date |-> 0,
                      category |-> 1])
    /\ comments = <<>>
    /\ next_post_id = 3
    /\ next_comment_id = 1
    /\ now = 0
    /\ request = NoRequest
    /\ response = NoResponse

NextComments ==
    \/ AddComment
    \/ EditComment
    \/ DeleteComment
    \/ DeletePost
    \/ PostDetail

SpecComments == InitComments /\ [][NextComments]_vars

(* ---------------- the index listing over a large Post table ------------ *)
\* n published posts of a published category, dated over the whole clock
InitPaginate ==
    /\ \E n \in 0..MaxItems :
          posts = [p \in 1..n |-> [author |-> 1, is_published |-> TRUE,
                                   pub_date |-> p % (MaxTime + 1), category |-> 1]]
    /\ comments = <<>>
    /\ next_post_id = MaxItems + 1
    /\ next_comment_id = 1
    /\ now = MaxTime
    /\ request = NoRequest
    /\ response = NoResponse

IndexPage == \E req \in IndexRequests(PageParams) : req.user = Anonymous /\ index(req)

NextPaginate == IndexPage

SpecPaginate == InitPaginate /\ [][NextPaginate]_vars

(* ========================== the properties ============================= *)
\* public visibility of a stored post, as the data model states it; a post
\* without a category has no published category
PublicVisibility(p) ==
    /\ posts[p].is_published
    /\ posts[p].pub_date <= now
    /\ posts[p].category # NoCategory
    /\ Category[posts[p].category].is_published

\* the post ids on a rendered page
Listed(resp) ==
    {resp.page_obj.object_list[i].id : i \in DOMAIN resp.page_obj.object_list}

PostsOf(u) == {p \in DOMAIN posts : posts[p].author = u}

\* the request of the step is a request to one of `views`
Served(views) == request'.view \in views

(* ------------------------------- C1 ------------------------------------ *)
\* C1: a detail request for an existing post renders it iff the viewer is
\* its author or the post is publicly visible, and is NotFound otherwise.
C1_PostDetailPermission ==
    (request.view = "post_detail" /\ request.post_id \in DOMAIN posts) =>
        IF request.user = posts[request.post_id].author
           \/ PublicVisibility(request.post_id)
        THEN response.status = "render" /\ response.post = request.post_id
        ELSE response.status = "notfound"

(* ------------------------------- C2 ------------------------------------ *)
OnSomeIndexPage(p) ==
    LET items == get_annotated_posts(DOMAIN posts, FALSE)
    IN \E k \in 1..num_pages(items, PageSize) :
          \E i \in DOMAIN page(items, PageSize, k).object_list :
              page(items, PageSize, k).object_list[i].id = p

\* C2: a stored post is on some page of the index listing iff it is
\* published, dated now or earlier and of a published category; and the page
\* an index request renders holds such posts only.
C2_IndexListing ==
    /\ \A p \in DOMAIN posts : OnSomeIndexPage(p) <=> PublicVisibility(p)
    /\ request.view = "index" =>
          /\ response.status = "render"
          /\ Listed(response) \subseteq {p \in DOMAIN posts : PublicVisibility(p)}

\* the index shows one post and holds back another that fails on its
\* category alone
C2_Witness ==
    /\ request.view = "index"
    /\ \E p \in Listed(response), q \in DOMAIN posts \ Listed(response) :
          /\ PublicVisibility(p)
          /\ posts[q].is_published /\ posts[q].pub_date <= now
          /\ ~PublicVisibility(q)

(* ------------------------------- C3 ------------------------------------ *)
\* C3: a post is removed only by a delete POST of its author and changed only
\* by an edit POST of its author; an edit or delete request of an
\* authenticated non-author is redirected to the post's detail view and
\* leaves the store unchanged.
C3_PostOwnership ==
    [][/\ \A p \in DOMAIN posts :
            /\ p \notin DOMAIN posts' =>
                  /\ request'.view = "delete_post" /\ request'.method = "POST"
                  /\ request'.post_id = p /\ request'.user = posts[p].author
            /\ (p \in DOMAIN posts' /\ posts'[p] # posts[p]) =>
                  /\ request'.view = "edit_post" /\ request'.method = "POST"
                  /\ request'.post_id = p /\ request'.user = posts[p].author
       /\ ( /\ Served({"edit_post", "delete_post"})
            /\ request'.user # Anonymous
            /\ request'.post_id \in DOMAIN posts
            /\ request'.user # posts[request'.post_id].author )
          => /\ response' = Redirect("post_detail", request'.post_id, "")
             /\ store' = store
      ]_vars

\* a non-author has posted to the edit or delete view of an existing post
C3_Witness ==
    /\ request.view \in {"edit_post", "delete_post"}
    /\ request.method = "POST"
    /\ request.user # Anonymous
    /\ request.post_id \in DOMAIN posts
    /\ request.user # posts[request.post_id].author
    /\ response.status = "redirect"

(* ------------------------------- C4 ------------------------------------ *)
CommentChanged(c) == c \in DOMAIN comments' /\ comments'[c] # comments[c]
CommentRemoved(c) == c \notin DOMAIN comments'

\* what C4 says of the requests of the comment's author: only a POST changes
\* (edit, valid form: the body alone) or removes (delete) the comment
AuthorMutatesByPost(c) ==
    /\ CommentRemoved(c) =>
          request'.view = "delete_comment" /\ request'.method = "POST"
    /\ CommentChanged(c) =>
          /\ request'.view = "edit_comment" /\ request'.method = "POST"
          /\ request'.data = ValidData
          /\ comments'[c] = [comments[c] EXCEPT !.text = comments'[c].text]
    /\ request'.method = "GET" => comments' = comments

\* C4 as stated: every requester who is not the comment's author leaves the
\* comment unchanged and is redirected to the post's detail view.
C4_Original ==
    [][( /\ Served({"edit_comment", "delete_comment"})
         /\ request'.comment_id \in DOMAIN comments )
       => LET c == request'.comment_id
          IN IF request'.user # comments[c].author
             THEN /\ comments' = comments
                  /\ response' = Redirect("post_detail", request'.post_id, "")
             ELSE AuthorMutatesByPost(c)
      ]_vars

\* C4 as amended: an authenticated requester who is not the comment's author
\* leaves the comment unchanged and is redirected to the post's detail view;
\* an anonymous requester is redirected to the login page, the comment
\* unchanged; only a POST of the author changes or removes the comment.
C4_CommentOwnership ==
    [][( /\ Served({"edit_comment", "delete_comment"})
         /\ request'.comment_id \in DOMAIN comments )
       => LET c == request'.comment_id
          IN IF request'.user = Anonymous
             THEN comments' = comments /\ response' = LoginRedirect
             ELSE IF request'.user # comments[c].author
             THEN /\ comments' = comments
                  /\ response' = Redirect("post_detail", request'.post_id, "")
             ELSE AuthorMutatesByPost(c)
      ]_vars

\* an authenticated non-author has posted a valid edit of an existing comment
C4_Witness ==
    /\ request.view = "edit_comment"
    /\ request.method = "POST" /\ request.data = ValidData
    /\ request.user # Anonymous
    /\ request.comment_id \in DOMAIN comments
    /\ request.user # comments[request.comment_id].author
    /\ response = Redirect("post_detail", request.post_id, "")

(* ------------------------------- C5 ------------------------------------ *)
\* the number of pages of n items, ten to a page (one page when there are none)
TotalPages(n) == IF n = 0 THEN 1 ELSE (n + PageSize - 1) \div PageSize

\* the page parameter of the request, read as int() reads it
PageNotInteger == ~int_parse(request.page).ok
PageNumber == int_parse(request.page).val

\* what C5 says apart from the page a number below the range falls back to
PaginationCommon ==
    LET n    == Cardinality(DOMAIN posts)
        last == TotalPages(n)
        got  == response.page_obj
    IN /\ response.status = "render"
       /\ got.num_pages = last
       /\ PageNotInteger => got.number = 1
       /\ (~PageNotInteger /\ PageNumber >= 1 /\ PageNumber <= last) =>
             got.number = PageNumber
       /\ (~PageNotInteger /\ PageNumber > last) => got.number = last
       /\ Len(got.object_list) =
             IF got.number < last THEN PageSize ELSE n - PageSize * (last - 1)
       /\ n = 25 =>
             /\ (~PageNotInteger /\ PageNumber = 1) => Len(got.object_list) = 10
             /\ (~PageNotInteger /\ PageNumber = 3) => Len(got.object_list) = 5
             /\ (~PageNotInteger /\ PageNumber = 4) => got.number = 3

\* C5 as stated: a page number below 1 is answered with the first page.
C5_Original ==
    request.view = "index" =>
        /\ PaginationCommon
        /\ (~PageNotInteger /\ PageNumber < 1) => response.page_obj.number = 1

\* C5 as amended: an absent or non-integer page parameter yields page 1; a
\* page number below 1 (0 or negative) or above totalPages yields the last
\* page; for 25 items page 1 has 10 items, page 3 has 5 and page 4 returns
\* page 3.
C5_Pagination ==
    request.view = "index" =>
        /\ PaginationCommon
        /\ (~PageNotInteger /\ PageNumber < 1) =>
              response.page_obj.number = TotalPages(Cardinality(DOMAIN posts))

\* page 0 of 25 items has been asked for, and the third page came back
C5_Witness ==
    /\ request.view = "index"
    /\ Cardinality(DOMAIN posts) = 25
    /\ request.page = <<"0">>
    /\ response.page_obj.number = 3
    /\ Len(response.page_obj.object_list) = 5

(* ------------------------------- C6 ------------------------------------ *)
\* C6: a profile request for an existing user u lists all of u's posts iff
\* the viewer is authenticated and is u, and exactly u's publicly visible
\* posts for every other viewer; an unknown username is NotFound.
C6_ProfileListing ==
    request.view = "profile" =>
        LET found == {u \in Users : User[u].username = request.name}
        IN IF found = {} THEN response.status = "notfound"
           ELSE \A u \in found :
                   /\ response.status = "render"
                   /\ Listed(response) =
                         IF request.user # Anonymous /\ request.user = u
                         THEN PostsOf(u)
                         ELSE {p \in PostsOf(u) : PublicVisibility(p)}

\* another authenticated user looks at the profile of a user who has a
\* visible post and a hidden one, and is shown the visible one only
C6_Witness ==
    /\ request.view = "profile"
    /\ request.user # Anonymous
    /\ \E u \in Users \ {request.user} :
          /\ User[u].username = request.name
          /\ \E p \in PostsOf(u), q \in PostsOf(u) :
                /\ PublicVisibility(p) /\ ~PublicVisibility(q)
                /\ p \in Listed(response) /\ q \notin Listed(response)

(* ------------------------------- C7 ------------------------------------ *)
\* the ids on the pages of u's profile listing as v is shown it
OnProfile(v, u) ==
    LET items == get_annotated_posts(PostsOf(u), profile_show_all(v, u))
    IN {items[i].id : i \in DOMAIN items}

\* C7: a valid create POST of an authenticated user u stores exactly one new
\* post, whose author is u, redirects to u's profile, and the new post is
\* then in u's own profile listing; any other create request stores nothing.
C7_CreatePost ==
    [][Served({"create_post"}) =>
         IF /\ request'.user # Anonymous
            /\ request'.method = "POST"
            /\ request'.data = ValidData
         THEN /\ \E id \in (DOMAIN posts') \ DOMAIN posts, u \in Users :
                    /\ u = request'.user
                    /\ DOMAIN posts' = DOMAIN posts \cup {id}
                    /\ posts'[id].author = u
                    /\ id \in OnProfile(u, u)'
              /\ \A q \in DOMAIN posts : posts'[q] = posts[q]
              /\ response' = Redirect("profile", 0, User[request'.user].username)
         ELSE posts' = posts /\ comments' = comments
      ]_vars

\* bob has just created a second post, one that is not publicly visible
C7_Witness ==
    /\ request.view = "create_post"
    /\ request.user = 2
    /\ response.status = "redirect"
    /\ Cardinality(DOMAIN posts) = 2
    /\ (next_post_id - 1) \in DOMAIN posts
    /\ posts[next_post_id - 1].author = 2
    /\ ~PublicVisibility(next_post_id - 1)

(* ------------------------------- C8 ------------------------------------ *)
\* C8: a category request is NotFound when no category has the slug or the
\* category is not published; for a published category the listing holds
\* exactly its posts that are published and dated now or earlier.
C8_CategoryListing ==
    request.view = "category_posts" =>
        LET found == {c \in DOMAIN Category : Category[c].slug = request.name}
        IN IF found = {} \/ \A c \in found : ~Category[c].is_published
           THEN response.status = "notfound"
           ELSE \A c \in found :
                   /\ response.status = "render"
                   /\ Listed(response) =
                         {p \in DOMAIN posts : /\ posts[p].category = c
                                               /\ posts[p].is_published
                                               /\ posts[p].pub_date <= now}

\* the listing of a published category shows one of its posts and leaves out
\* a published post of another category
C8_Witness ==
    /\ request.view = "category_posts"
    /\ response.status = "render"
    /\ \E p \in Listed(response), q \in DOMAIN posts \ Listed(response) :
          /\ posts[q].category # posts[p].category
          /\ posts[q].is_published /\ posts[q].pub_date <= now

(* ------------------------------- C9 ------------------------------------ *)
\* C9: an add-comment request of an authenticated user for an existing post
\* p is redirected to p's detail view; a valid submission stores exactly one
\* new comment, on p and by that user, any other submission stores nothing.
\* For a post id that does not exist the answer is NotFound, nothing stored.
C9_AddComment ==
    [][(Served({"add_comment"}) /\ request'.user # Anonymous) =>
         IF request'.post_id \in DOMAIN posts
         THEN /\ response' = Redirect("post_detail", request'.post_id, "")
              /\ posts' = posts
              /\ IF request'.data = ValidData
                 THEN /\ \E id \in (DOMAIN comments') \ DOMAIN comments :
                            /\ DOMAIN comments' = DOMAIN comments \cup {id}
                            /\ comments'[id].post = request'.post_id
                            /\ comments'[id].author = request'.user
                      /\ \A c \in DOMAIN comments : comments'[c] = comments[c]
                 ELSE comments' = comments
         ELSE response' = NotFound /\ store' = store
      ]_vars

\* a second comment has just been stored, on a post that is not publicly
\* visible, by a user who is not the post's author
C9_Witness ==
    /\ request.view = "add_comment"
    /\ request.data = ValidData
    /\ response.status = "redirect"
    /\ request.post_id \in DOMAIN posts
    /\ ~PublicVisibility(request.post_id)
    /\ request.user # posts[request.post_id].author
    /\ Cardinality(DOMAIN comments) = 2
    /\ \E c \in DOMAIN comments :
          comments[c].post = request.post_id /\ comments[c].author = request.user

(* ------------------------------- C10 ----------------------------------- *)
\* C10: an edit-comment or delete-comment request changes or removes the
\* comment only if the comment belongs to the post of the URL, and the
\* redirect that follows goes to the detail view of the comment's own post.
C10_CommentBoundToPost ==
    [][( /\ Served({"edit_comment", "delete_comment"})
         /\ request'.comment_id \in DOMAIN comments )
       => LET c == request'.comment_id
          IN /\ (CommentChanged(c) \/ CommentRemoved(c)) =>
                   comments[c].post = request'.post_id
             /\ response'.status = "redirect" =>
                   response'.to = [view |-> "post_detail",
                                   post_id |-> comments[c].post, name |-> ""]
      ]_vars

====
